---- MODULE Spec2Model ----
(***************************************************************************)
(* A model of epub2pdf.py (class EPUBtoPDFConverter and main).             *)
(*                                                                         *)
(* Text is modelled by TLA+ strings, handled character by character with   *)
(* Len, SubSeq and \o, so that the regular expressions and the str methods *)
(* of the source are computed as Python computes them.                     *)
(***************************************************************************)
EXTENDS Integers, Sequences, FiniteSets, TLC

VARIABLES
    \* _clean_html_content
    rawDoc,          \* the chapter given to _clean_html_content (its parts)
    cleaned,         \* what _clean_html_content returned
    cleanPc,         \* "idle" | "ready" | "done"
    \* extract_images_from_epub and _replace_image_references
    book,            \* book.get_items(): the package's resource items
    idx,             \* the item the loop of extract_images_from_epub is at
    images,          \* the dict images: key |-> data URL
    processed_count, \* the local processed_count
    accepted,        \* the names of the items registered in images so far
    imgPc,           \* "idle" | "collect" | "collected" | "rewritten"
    frag,            \* the fragment given to _replace_image_references
    rewritten,       \* what _replace_image_references returned
    lookups,         \* per img tag, the src and the key replace_img_src found
    \* extract_epub_content
    pkg,             \* what epub.read_epub gives for the file (or that it raises)
    result,          \* what extract_epub_content returned
    asmPc,           \* "idle" | "ready" | "done"
    \* convert_all and main
    files,           \* the files find_epub_files returns, in its order
    source_exists,   \* whether source_dir exists
    epub_mtime,      \* per file, the st_mtime of the input
    pdf,             \* per file, whether the output exists and its st_mtime
    now,             \* the clock
    run,             \* the number of the run of the program
    pos,             \* the file the loop of convert_all is at
    results,         \* the dict results of convert_all
    batchPc,         \* "idle" | "start" | "loop" | "exited"
    exit_code,       \* the status the process ended with
    last,            \* per file, what happened when it was last handled
    touched          \* per file, whether it was modified since then

cleanVars == <<rawDoc, cleaned, cleanPc>>
imgVars == <<book, idx, images, processed_count, accepted, imgPc, frag,
             rewritten, lookups>>

asmVars == <<pkg, result, asmPc>>

batchVars == <<files, source_exists, epub_mtime, pdf, now, run, pos, results,
               batchPc, exit_code, last, touched>>

vars == <<rawDoc, cleaned, cleanPc, book, idx, images, processed_count,
          accepted, imgPc, frag, rewritten, lookups, pkg, result, asmPc,
          files, source_exists, epub_mtime, pdf, now, run, pos, results,
          batchPc, exit_code, last, touched>>

-----------------------------------------------------------------------------
(* Python str primitives                                                   *)

\* Rest(v) for v the value of e: a local variable, assigned once
Local(e, Rest(_)) == CHOOSE r \in {Rest(v) : v \in {e}} : TRUE

\* s[i-1:i]: the character at i, "" outside the string
Ch(s, i) == IF 1 <= i /\ i <= Len(s) THEN SubSeq(s, i, i) ELSE ""

\* str.lower() of one character (the ASCII letters)
LowerMap ==
    [A |-> "a", B |-> "b", C |-> "c", D |-> "d", E |-> "e", F |-> "f", G |-> "g",
     H |-> "h", I |-> "i", J |-> "j", K |-> "k", L |-> "l", M |-> "m", N |-> "n",
     O |-> "o", P |-> "p", Q |-> "q", R |-> "r", S |-> "s", T |-> "t", U |-> "u",
     V |-> "v", W |-> "w", X |-> "x", Y |-> "y", Z |-> "z"]

LowerCh(c) == IF c \in DOMAIN LowerMap THEN LowerMap[c] ELSE c

RECURSIVE Lower(_)
Lower(s) == IF s = "" THEN "" ELSE LowerCh(Ch(s, 1)) \o Lower(SubSeq(s, 2, Len(s)))

\* s[i:].startswith(p), 1-based
StartsAt(s, p, i) ==
    /\ i >= 1
    /\ i + Len(p) - 1 <= Len(s)
    /\ SubSeq(s, i, i + Len(p) - 1) = p

\* the same under re.IGNORECASE, p given in lower case
StartsAtCI(s, p, i) ==
    /\ i >= 1
    /\ i + Len(p) - 1 <= Len(s)
    /\ Lower(SubSeq(s, i, i + Len(p) - 1)) = p

StartsWith(s, p) == StartsAt(s, p, 1)

\* the least element of a non-empty set of integers
MinOf(S) == CHOOSE x \in S : \A y \in S : x <= y

\* whether the character c is one of chars (a string)
InStr(c, chars) == \E k \in 1..Len(chars) : SubSeq(chars, k, k) = c

\* the first index >= i of a character of chars (a string), 0 when none
FirstOf(s, chars, i) ==
    LET S == {j \in i..Len(s) : InStr(SubSeq(s, j, j), chars)}
    IN  IF S = {} THEN 0 ELSE MinOf(S)

\* the first index >= i where p starts (case-insensitively when ci), 0 when none
Find(s, p, i, ci) ==
    LET S == {j \in i..Len(s) : IF ci THEN StartsAtCI(s, p, j) ELSE StartsAt(s, p, j)}
    IN  IF S = {} THEN 0 ELSE MinOf(S)

Contains(s, p, ci) == Find(s, p, 1, ci) # 0

\* str.replace(old, new): non-overlapping occurrences, left to right
RECURSIVE ReplaceFrom(_, _, _, _)
ReplaceFrom(s, old, new, i) ==
    LET j == Find(s, old, i, FALSE)
    IN  IF j = 0 THEN SubSeq(s, i, Len(s))
        ELSE SubSeq(s, i, j - 1) \o new \o ReplaceFrom(s, old, new, j + Len(old))

Replace(s, old, new) == ReplaceFrom(s, old, new, 1)

\* str.lstrip(c): every leading c removed
RECURSIVE LStrip(_, _)
LStrip(s, c) ==
    IF s # "" /\ Ch(s, 1) = c THEN LStrip(SubSeq(s, 2, Len(s)), c) ELSE s

\* str.split(sep)[-1]: the text after the last sep (the whole string when none)
RECURSIVE LastSegment(_, _)
LastSegment(s, sep) ==
    LET i == FirstOf(s, sep, 1)
    IN  IF i = 0 THEN s ELSE LastSegment(SubSeq(s, i + 1, Len(s)), sep)

-----------------------------------------------------------------------------
(* _clean_html_content (lines 219-243)                                      *)

\* r'<\?xml[^>]*\?>' at i: the index of its last character, 0 when no match.
\* [^>]* cannot cross a '>', so the match ends at the first '>' after the
\* prefix, which a '?' must precede.  No re.IGNORECASE.
XmlDeclEnd(s, i) ==
    IF ~StartsAt(s, "<?xml", i) THEN 0
    ELSE LET g == FirstOf(s, ">", i + 5)
         IN  IF g # 0 /\ g - 1 >= i + 5 /\ Ch(s, g - 1) = "?" THEN g ELSE 0

\* r'<!DOCTYPE[^>]*>' at i.  No re.IGNORECASE.
DoctypeEnd(s, i) ==
    IF ~StartsAt(s, "<!DOCTYPE", i) THEN 0 ELSE FirstOf(s, ">", i + 9)

\* r'<html[^>]*>' with re.IGNORECASE
HtmlOpenEnd(s, i) ==
    IF ~StartsAtCI(s, "<html", i) THEN 0 ELSE FirstOf(s, ">", i + 5)

\* r'</html>' with re.IGNORECASE
HtmlCloseEnd(s, i) ==
    IF StartsAtCI(s, "</html>", i) THEN i + 6 ELSE 0

\* r'<head[^>]*>.*?</head>' with re.DOTALL | re.IGNORECASE
HeadEnd(s, i) ==
    IF ~StartsAtCI(s, "<head", i) THEN 0
    ELSE LET g == FirstOf(s, ">", i + 5)
         IN  IF g = 0 THEN 0
             ELSE LET e == Find(s, "</head>", g + 1, TRUE)
                  IN  IF e = 0 THEN 0 ELSE e + 6

\* re.sub(pattern, '', s) from i: one scan from the left, the text after a
\* match is not rescanned
RECURSIVE SubXmlDecl(_, _)
SubXmlDecl(s, i) ==
    LET S == {j \in i..Len(s) : XmlDeclEnd(s, j) # 0}
    IN  IF S = {} THEN SubSeq(s, i, Len(s))
        ELSE SubSeq(s, i, MinOf(S) - 1) \o SubXmlDecl(s, XmlDeclEnd(s, MinOf(S)) + 1)

RECURSIVE SubDoctype(_, _)
SubDoctype(s, i) ==
    LET S == {j \in i..Len(s) : DoctypeEnd(s, j) # 0}
    IN  IF S = {} THEN SubSeq(s, i, Len(s))
        ELSE SubSeq(s, i, MinOf(S) - 1) \o SubDoctype(s, DoctypeEnd(s, MinOf(S)) + 1)

RECURSIVE SubHtmlOpen(_, _)
SubHtmlOpen(s, i) ==
    LET S == {j \in i..Len(s) : HtmlOpenEnd(s, j) # 0}
    IN  IF S = {} THEN SubSeq(s, i, Len(s))
        ELSE SubSeq(s, i, MinOf(S) - 1) \o SubHtmlOpen(s, HtmlOpenEnd(s, MinOf(S)) + 1)

RECURSIVE SubHtmlClose(_, _)
SubHtmlClose(s, i) ==
    LET S == {j \in i..Len(s) : HtmlCloseEnd(s, j) # 0}
    IN  IF S = {} THEN SubSeq(s, i, Len(s))
        ELSE SubSeq(s, i, MinOf(S) - 1) \o SubHtmlClose(s, HtmlCloseEnd(s, MinOf(S)) + 1)

RECURSIVE SubHead(_, _)
SubHead(s, i) ==
    LET S == {j \in i..Len(s) : HeadEnd(s, j) # 0}
    IN  IF S = {} THEN SubSeq(s, i, Len(s))
        ELSE SubSeq(s, i, MinOf(S) - 1) \o SubHead(s, HeadEnd(s, MinOf(S)) + 1)

\* r'<body[^>]*>(.*?)</body>' with re.DOTALL | re.IGNORECASE at i:
\* <<first, last>> of group 1, <<0, 0>> when no match
BodyAt(s, i) ==
    LET g == IF StartsAtCI(s, "<body", i) THEN FirstOf(s, ">", i + 5) ELSE 0
        e == IF g = 0 THEN 0 ELSE Find(s, "</body>", g + 1, TRUE)
    IN  IF e = 0 THEN <<0, 0>> ELSE <<g + 1, e - 1>>

\* re.search of it: <<found, group(1)>>, the leftmost start that matches
BodySearch(s) ==
    LET S == {j \in 1..Len(s) : BodyAt(s, j)[1] # 0}
    IN  IF S = {} THEN <<FALSE, "">>
        ELSE <<TRUE, SubSeq(s, BodyAt(s, MinOf(S))[1], BodyAt(s, MinOf(S))[2])>>

_clean_html_content(content) ==
    LET c1 == SubXmlDecl(content, 1)
        c2 == SubDoctype(c1, 1)
        body_match == BodySearch(c2)
    IN  IF body_match[1] THEN body_match[2]
        ELSE SubHead(SubHtmlClose(SubHtmlOpen(c2, 1), 1), 1)

-----------------------------------------------------------------------------
(* Chapters given to _clean_html_content: a prolog, a doctype, a document   *)
(* wrapper, a head section, a body wrapper and the text, each present or    *)
(* not and in the spellings below.                                          *)

Prologs  == {"", "<?xml version='1.0'?>", "<?XML version='1.0'?>"}
Doctypes == {"", "<!DOCTYPE html>", "<!doctype html>", "<!DocType html>"}
HtmlTags == {<<"", "">>, <<"<html lang='en'>", "</html>">>, <<"<HTML>", "</HTML>">>}
Heads    == {"", "<head><title>T</title></head>", "<HEAD><meta/></HEAD>"}
BodyTags == {<<"", "">>, <<"<body class='c'>", "</body>">>, <<"<BODY>", "</BODY>">>}
Texts    == {"<p>x</p>", "<h1>A</h1>b"}

RawDocs == [prolog : Prologs, doctype : Doctypes, html : HtmlTags,
            head : Heads, body : BodyTags, text : Texts]

\* the chapter's markup
DocText(d) ==
    d.prolog \o d.doctype \o d.html[1] \o d.head \o d.body[1] \o d.text
      \o d.body[2] \o d.html[2]

CleanInit ==
    /\ rawDoc \in RawDocs
    /\ cleaned = ""
    /\ cleanPc = "ready"

CleanIdle ==
    /\ rawDoc = [prolog |-> "", doctype |-> "", html |-> <<"", "">>,
                 head |-> "", body |-> <<"", "">>, text |-> ""]
    /\ cleaned = ""
    /\ cleanPc = "idle"

\* one call of _clean_html_content
Clean ==
    /\ cleanPc = "ready"
    /\ cleaned' = _clean_html_content(DocText(rawDoc))
    /\ cleanPc' = "done"
    /\ UNCHANGED rawDoc
    /\ UNCHANGED <<imgVars, asmVars, batchVars>>

-----------------------------------------------------------------------------
(* _get_image_mime_type (lines 378-390)                                     *)

mime_types(ext) ==
    CASE ext = "jpg"  -> "image/jpeg"
      [] ext = "jpeg" -> "image/jpeg"
      [] ext = "png"  -> "image/png"
      [] ext = "gif"  -> "image/gif"
      [] ext = "bmp"  -> "image/bmp"
      [] ext = "svg"  -> "image/svg+xml"
      [] ext = "webp" -> "image/webp"
      [] OTHER        -> "image/jpeg"

_get_image_mime_type(filename) == mime_types(LastSegment(Lower(filename), "."))

-----------------------------------------------------------------------------
(* base64.b64encode(content).decode('utf-8') (line 357); content is a       *)
(* sequence of bytes 0..255                                                 *)

B64Chars == "ABCDEFGHIJKLMNOPQRSTUVWXYZabcdefghijklmnopqrstuvwxyz0123456789+/"

B64Ch(v) == Ch(B64Chars, v + 1)

RECURSIVE b64encode(_)
b64encode(bytes) ==
    IF Len(bytes) = 0 THEN ""
    ELSE IF Len(bytes) = 1 THEN
        B64Ch(bytes[1] \div 4) \o B64Ch((bytes[1] % 4) * 16) \o "=="
    ELSE IF Len(bytes) = 2 THEN
        LET v == (bytes[1] * 256 + bytes[2]) * 4
        IN  B64Ch(v \div 4096) \o B64Ch((v \div 64) % 64) \o B64Ch(v % 64) \o "="
    ELSE
        LET v == bytes[1] * 65536 + bytes[2] * 256 + bytes[3]
        IN  B64Ch(v \div 262144) \o B64Ch((v \div 4096) % 64)
              \o B64Ch((v \div 64) % 64) \o B64Ch(v % 64)
              \o b64encode(SubSeq(bytes, 4, Len(bytes)))

-----------------------------------------------------------------------------
(* extract_images_from_epub (lines 321-376)                                 *)

max_images == 500
max_size == 5 * 1024 * 1024

ITEM_IMAGE == "image"
ITEM_DOCUMENT == "document"
ITEM_OTHER == "other"

\* item.get_content() of an image item: the bytes data followed by pad zero
\* bytes (a content over max_size is never read byte by byte)
ContentLen(item) == Len(item.data) + item.pad

ContentBytes(item) == item.data \o [i \in 1..item.pad |-> 0]

\* line 358
DataUrl(item) ==
    "data:" \o _get_image_mime_type(item.name) \o ";base64,"
      \o b64encode(ContentBytes(item))

\* the guard of line 339 were it written with > for >=
LimitReachedLate(count) == count > max_images

\* line 339: the guard that ends the loop
LimitReached(count) == count >= max_images

\* lines 361-364: the item registered under its name and its basename
Register(imgs, item) ==
    LET filename == item.name
        base_name == LastSegment(filename, "/")
        data_url == DataUrl(item)
    IN  [k \in DOMAIN imgs \cup {filename, base_name} |->
            IF k = base_name THEN data_url
            ELSE IF k = filename THEN data_url
            ELSE imgs[k]]

\* one iteration of the loop of line 337 on the locals st; stop is the break of
\* line 341
CollectStep(item, st) ==
    IF item.type # ITEM_IMAGE THEN st
    ELSE IF LimitReached(st.processed_count) THEN [st EXCEPT !.stop = TRUE]
    ELSE IF item.raises \/ ContentLen(item) > max_size
    THEN st      \* lines 349-351 and 368-370: the item is skipped
    ELSE [images |-> Register(st.images, item),
          processed_count |-> st.processed_count + 1,
          accepted |-> st.accepted \cup {item.name},
          stop |-> FALSE]

\* lines 331-332
NoImagesYet ==
    [images |-> [k \in {} |-> ""], processed_count |-> 0, accepted |-> {},
     stop |-> FALSE]

\* the whole loop, from item i on
RECURSIVE CollectFrom(_, _, _)
CollectFrom(items, i, st) ==
    IF i > Len(items) \/ st.stop THEN st
    ELSE CollectFrom(items, i + 1, CollectStep(items[i], st))

extract_images_from_epub(items) == CollectFrom(items, 1, NoImagesYet).images

CollectItem ==
    /\ imgPc = "collect"
    /\ idx <= Len(book)
    /\ LET st == CollectStep(book[idx],
                             [images |-> images, processed_count |-> processed_count,
                              accepted |-> accepted, stop |-> FALSE])
       IN  /\ images' = st.images
           /\ processed_count' = st.processed_count
           /\ accepted' = st.accepted
           /\ idx' = IF st.stop THEN idx ELSE idx + 1
           /\ imgPc' = IF st.stop THEN "collected" ELSE "collect"
    /\ UNCHANGED <<book, frag, rewritten, lookups>>
    /\ UNCHANGED <<cleanVars, asmVars, batchVars>>

\* the loop is over: lines 372-376
CollectReturn ==
    /\ imgPc = "collect"
    /\ idx > Len(book)
    /\ imgPc' = "collected"
    /\ UNCHANGED <<book, idx, images, processed_count, accepted, frag,
                   rewritten, lookups>>
    /\ UNCHANGED <<cleanVars, asmVars, batchVars>>

-----------------------------------------------------------------------------
(* _replace_image_references (lines 245-319)                                *)

WhiteSpace == " \t\n"
Quotes == "\"'"
MaxVariants == 10

\* the first index >= i that holds no white space (Len(s) + 1 when none)
SkipSpace(s, i) ==
    LET S == {j \in i..Len(s) : ~InStr(SubSeq(s, j, j), WhiteSpace)}
    IN  IF S = {} THEN Len(s) + 1 ELSE MinOf(S)

\* src\s*=\s*["\']([^"\']+)["\'] at p ("src" in any case when ci):
\* <<first, last>> of group 1, <<0, 0>> when no match.  The closing quote is
\* at last + 1.
SrcAttr(s, p, ci) ==
    IF ~(IF ci THEN StartsAtCI(s, "src", p) ELSE StartsAt(s, "src", p)) THEN <<0, 0>>
    ELSE LET eq == SkipSpace(s, p + 3)
             q  == SkipSpace(s, eq + 1)
             qe == FirstOf(s, Quotes, q + 1)
         IN  IF /\ Ch(s, eq) = "="
                /\ q <= Len(s)
                /\ InStr(Ch(s, q), Quotes)
                /\ qe > q + 1
             THEN <<q + 1, qe - 1>>
             ELSE <<0, 0>>

\* img_pattern (line 260) at i, with re.IGNORECASE:
\* [ok, src (group 1), end (the tag's last index)].  The first [^>]* is
\* greedy: of the places where the rest matches, the last one before the
\* first '>' is taken.
ImgMatch(s, i) ==
    LET none == [ok |-> FALSE, src |-> "", end |-> 0]
    IN  IF ~StartsAtCI(s, "<img", i) THEN none
        ELSE LET gt == FirstOf(s, ">", i + 4)
                 lim == IF gt = 0 THEN Len(s) ELSE gt
                 ps == {p \in (i + 4)..lim :
                          /\ SrcAttr(s, p, TRUE)[1] # 0
                          /\ FirstOf(s, ">", SrcAttr(s, p, TRUE)[2] + 2) # 0}
             IN  IF ps = {} THEN none
                 ELSE LET p == CHOOSE x \in ps : \A y \in ps : y <= x
                          g == SrcAttr(s, p, TRUE)
                      IN  [ok |-> TRUE, src |-> SubSeq(s, g[1], g[2]),
                           end |-> FirstOf(s, ">", g[2] + 2)]

\* re.sub(r'src\s*=\s*["\'][^"\']+["\']', repl, full_tag, count=1) (lines
\* 296-301 and 306): no re.IGNORECASE.  The data URLs and "#" hold no
\* backslash, so repl is taken as it stands.
SubSrcOnce(full_tag, repl) ==
    LET S == {j \in 1..Len(full_tag) : SrcAttr(full_tag, j, FALSE)[1] # 0}
    IN  IF S = {} THEN full_tag
        ELSE SubSeq(full_tag, 1, MinOf(S) - 1) \o repl
               \o SubSeq(full_tag, SrcAttr(full_tag, MinOf(S), FALSE)[2] + 2,
                         Len(full_tag))

\* list(dict.fromkeys(keys)): the first occurrence of each key, in order
RECURSIVE Dedup(_)
Dedup(keys) ==
    IF keys = <<>> THEN <<>>
    ELSE LET rest == Dedup(SubSeq(keys, 1, Len(keys) - 1))
             k_n == keys[Len(keys)]
         IN  IF \E k \in 1..Len(rest) : rest[k] = k_n THEN rest
             ELSE Append(rest, k_n)

\* lines 272-289
possible_keys(src) ==
    LET base_filename == LastSegment(src, "/")
        keys == << src,
                   LastSegment(src, "/"),
                   Replace(src, "../", ""),
                   Replace(src, "./", ""),
                   LStrip(src, "/"),
                   Replace(src, "images/", ""),
                   Replace(src, "Images/", ""),
                   Replace(src, "IMAGES/", "") >>
        more == IF \E k \in 1..Len(keys) : keys[k] = base_filename THEN keys
                ELSE Append(keys, base_filename)
        uniq == Dedup(more)
    IN  SubSeq(uniq, 1, IF Len(uniq) < MaxVariants THEN Len(uniq) ELSE MaxVariants)

\* the loop skips an empty key, so "" stands for no key found
NoKey == ""

\* the loop of lines 292-293: the first key of keys that is a key of imgs
RECURSIVE FirstKey(_, _)
FirstKey(keys, imgs) ==
    IF keys = <<>> THEN NoKey
    ELSE IF keys[1] # "" /\ keys[1] \in DOMAIN imgs THEN keys[1]
    ELSE FirstKey(Tail(keys), imgs)

\* replace_img_src (lines 262-310)
replace_img_src(full_tag, src, imgs) ==
    IF StartsWith(src, "data:") THEN full_tag
    ELSE Local(FirstKey(possible_keys(src), imgs),
               LAMBDA key :
                 IF key # NoKey
                 THEN SubSrcOnce(full_tag,
                                 "src=\"" \o Replace(imgs[key], "\"", "&quot;") \o "\"")
                 ELSE SubSrcOnce(full_tag, "src=\"#\""))

\* re.sub(img_pattern, replace_img_src, content, flags=re.IGNORECASE)
RECURSIVE SubImg(_, _, _)
SubImg(s, i, imgs) ==
    Local({j \in i..Len(s) : ImgMatch(s, j).ok},
          LAMBDA S :
            IF S = {} THEN SubSeq(s, i, Len(s))
            ELSE Local(ImgMatch(s, MinOf(S)),
                       LAMBDA m :
                         SubSeq(s, i, MinOf(S) - 1)
                           \o replace_img_src(SubSeq(s, MinOf(S), m.end), m.src, imgs)
                           \o SubImg(s, m.end + 1, imgs)))

\* lines 256-257: an empty dict returns the content as it is
NoImages(imgs) == DOMAIN imgs = {}

_replace_image_references(content, imgs) ==
    IF NoImages(imgs) THEN content ELSE SubImg(content, 1, imgs)

\* per call of replace_img_src that reaches the loop of line 292: the src and
\* the key the loop found
RECURSIVE ImgLookups(_, _, _)
ImgLookups(s, i, imgs) ==
    LET S == {j \in i..Len(s) : ImgMatch(s, j).ok}
    IN  IF NoImages(imgs) \/ S = {} THEN <<>>
        ELSE LET m == ImgMatch(s, MinOf(S))
             IN  (IF StartsWith(m.src, "data:") THEN <<>>
                  ELSE <<[src |-> m.src,
                          key |-> FirstKey(possible_keys(m.src), imgs)]>>)
                   \o ImgLookups(s, m.end + 1, imgs)

-----------------------------------------------------------------------------
(* Packages given to extract_images_from_epub                               *)

MaxItems == 2
ExtraImages == 1

\* a resource item: get_type(), get_id(), get_name(), get_content() (data and
\* pad), and whether get_content() raises
Item(type, id, name, data, pad, raises) ==
    [type |-> type, id |-> id, name |-> name, data |-> data, pad |-> pad,
     raises |-> raises]

\* the resource items the small packages are made of; the contents differ, so
\* that a data URL tells which item it was computed from
ItemTemplates ==
    { Item(ITEM_IMAGE, "cover.jpg", "cover.jpg", <<255, 216, 255>>, 0, FALSE),
      Item(ITEM_IMAGE, "img/cover.jpg", "img/cover.jpg", <<1>>, 0, FALSE),
      Item(ITEM_IMAGE, "images/a.png", "images/a.png", <<137, 80>>, 0, FALSE),
      Item(ITEM_IMAGE, "OEBPS/Images/b.GIF", "OEBPS/Images/b.GIF", <<71, 73, 70, 56>>, 0, FALSE),
      Item(ITEM_IMAGE, "mya.png", "mya.png", <<2>>, 0, FALSE),
      Item(ITEM_IMAGE, "big.bmp", "big.bmp", <<66>>, max_size, FALSE),
      Item(ITEM_IMAGE, "bad.svg", "bad.svg", <<>>, 0, TRUE),
      Item(ITEM_DOCUMENT, "ch1", "ch1.xhtml", <<>>, 0, FALSE) }

SmallBooks ==
    UNION { { b \in [1..n -> ItemTemplates] :
                \A i, j \in 1..n : b[i] = b[j] => i = j } : n \in 0..MaxItems }

DigitChars == "0123456789"

RECURSIVE Digits(_)
Digits(n) ==
    IF n < 10 THEN Ch(DigitChars, n + 1)
    ELSE Digits(n \div 10) \o Ch(DigitChars, (n % 10) + 1)

\* a package of n images p1.png .. pn.png in directory dir ("" or "d/")
BigBook(n, dir) ==
    [i \in 1..n |->
        Item(ITEM_IMAGE, "p" \o Digits(i), dir \o "p" \o Digits(i) \o ".png",
             <<i % 256>>, 0, FALSE)]

BigBooks ==
    { BigBook(n, dir) : n \in {max_images, max_images + ExtraImages},
                        dir \in {"", "img/"} }

Books == SmallBooks \cup BigBooks

\* the fragments given to _replace_image_references: one img tag in a
\* paragraph, in the spellings of TagForms, its reference one of Refs
TagForms ==
    { <<"<img src=\"", "\">">>,
      <<"<img alt='a' src = '", "' />">>,
      <<"<IMG SRC=\"", "\">">>,
      <<"<img data-src=\"lazy.png\" class=\"c\" src=\"", "\"/>">> }

Refs ==
    { "cover.jpg", "img/cover.jpg", "../images/a.png", "./a.png", "//b.GIF",
      "Images/b.GIF", "myimages/a.png", "missing.png", "p500.png",
      "data:image/png;base64,AAAA" }

Frags == [tag : TagForms, ref : Refs]

FragText(f) == "<p>" \o f.tag[1] \o f.ref \o f.tag[2] \o "</p>"

NoFrag == [tag |-> <<"", "">>, ref |-> ""]

ImgInit ==
    /\ book \in Books
    /\ idx = 1
    /\ images = [k \in {} |-> ""]
    /\ processed_count = 0
    /\ accepted = {}
    /\ imgPc = "collect"
    /\ frag = NoFrag
    /\ rewritten = ""
    /\ lookups = <<>>

ImgIdle ==
    /\ book = <<>>
    /\ idx = 1
    /\ images = [k \in {} |-> ""]
    /\ processed_count = 0
    /\ accepted = {}
    /\ imgPc = "idle"
    /\ frag = NoFrag
    /\ rewritten = ""
    /\ lookups = <<>>

\* one call of _replace_image_references with the collected images
Rewrite ==
    /\ imgPc = "collected"
    /\ \E f \in Frags :
          /\ frag' = f
          /\ rewritten' = _replace_image_references(FragText(f), images)
          /\ lookups' = ImgLookups(FragText(f), 1, images)
    /\ imgPc' = "rewritten"
    /\ UNCHANGED <<book, idx, images, processed_count, accepted>>
    /\ UNCHANGED <<cleanVars, asmVars, batchVars>>

ImgNext == CollectItem \/ CollectReturn \/ Rewrite

-----------------------------------------------------------------------------
(* extract_epub_content (lines 108-217)                                     *)

\* the value of spine_order.get(doc.get_id(), 999) of line 194
MissingRank == 999

\* stands for the literal of line 123 (not ASCII in the source)
UnknownAuthor == "unknown author"

\* lines 131-179, the style sheet left out
Preamble(title, author) ==
    "<!DOCTYPE html><html><head><meta charset=\"utf-8\"><title>" \o title
      \o "</title><style></style></head><body><div class=\"title-page\">"
      \o "<div class=\"title\">" \o title \o "</div><div class=\"author\">"
      \o author \o "</div></div>"

\* lines 208-211
Closing == "</body></html>"

\* lines 182-185: the items of type ITEM_DOCUMENT, in the order met
Documents(items) == SelectSeq(items, LAMBDA it : it.type = ITEM_DOCUMENT)

\* lines 189-191 and the lookup of line 194: enumerate(book.spine) fills
\* spine_order, a later entry of the same id overwriting an earlier one
SpineRank(spine, id) ==
    LET at == {i \in 1..Len(spine) : spine[i][1] = id}
    IN  IF at = {} THEN MissingRank
        ELSE (CHOOSE i \in at : \A j \in at : j <= i) - 1

\* list.sort(key=...) (line 194): stable, so a document goes after every
\* document already placed whose key is not greater
InsertByRank(sorted, doc, spine) ==
    LET n == Cardinality({i \in 1..Len(sorted) :
                            SpineRank(spine, sorted[i].id) <= SpineRank(spine, doc.id)})
    IN  SubSeq(sorted, 1, n) \o <<doc>> \o SubSeq(sorted, n + 1, Len(sorted))

RECURSIVE SortBySpine(_, _)
SortBySpine(docs, spine) ==
    IF docs = <<>> THEN <<>>
    ELSE InsertByRank(SortBySpine(SubSeq(docs, 1, Len(docs) - 1), spine),
                      docs[Len(docs)], spine)

\* lines 188-194: sorted only when the package has a spine
OrderedDocuments(items, spine) ==
    IF spine # <<>> THEN SortBySpine(Documents(items), spine) ELSE Documents(items)

\* bytes.decode('utf-8', errors='ignore') (line 199); a content is a sequence
\* of chunks <<"text", s>> (valid UTF-8 for s) and <<"bytes", n>> (n bytes
\* that are no valid UTF-8, which are dropped)
RECURSIVE Decode(_)
Decode(data) ==
    IF data = <<>> THEN ""
    ELSE (IF data[1][1] = "text" THEN data[1][2] ELSE "") \o Decode(Tail(data))

\* lines 204-206 were the exception of a fragment not caught there
FragmentFailedPropagates(acc) == [acc EXCEPT !.raised = TRUE]

\* lines 204-206: the exception of a fragment is caught and the loop goes on.
\* acc is what the assembly holds: the document so far, the ids of the
\* fragments in it, and whether an exception is on its way to line 215
FragmentFailed(acc) == acc

\* lines 199-203
FragmentAdded(acc, item, imgs) ==
    Local(_clean_html_content(Decode(item.data)),
          LAMBDA content :
            [acc EXCEPT !.html = @ \o _replace_image_references(content, imgs),
                        !.emitted = Append(@, item.id)])

\* the loop of lines 197-206, from document i on
RECURSIVE AddDocuments(_, _, _, _)
AddDocuments(docs, i, imgs, acc) ==
    IF i > Len(docs) \/ acc.raised THEN acc
    ELSE Local(IF docs[i].raises THEN FragmentFailed(acc)
               ELSE FragmentAdded(acc, docs[i], imgs),
               LAMBDA next : AddDocuments(docs, i + 1, imgs, next))

None == [ok |-> FALSE, html |-> "", emitted |-> <<>>]

\* n spine entries that name no document
Fillers(n) == [i \in 1..n |-> <<"f" \o Digits(i), "no">>]

\* book.spine (line 189); a package keeps the entries that name no document
\* as their number, pad, ahead of the entries it lists
Spine(p) == Fillers(p.pad) \o p.spine

\* lines 122-211 for a package that opened, imgs and docs the locals images
\* (line 128) and documents (lines 185-194)
Assembled(p, imgs, docs) ==
    LET title == IF p.title # "" THEN p.title ELSE p.stem
        author == IF p.author # "" THEN p.author ELSE UnknownAuthor
    IN  Local(AddDocuments(docs, 1, imgs,
                           [html |-> Preamble(title, author),
                            emitted |-> <<>>, raised |-> FALSE]),
              LAMBDA acc :
                IF acc.raised THEN None
                ELSE [ok |-> TRUE, html |-> acc.html \o Closing,
                      emitted |-> acc.emitted])

extract_epub_content(p) ==
    IF ~p.opens THEN None     \* epub.read_epub raises: lines 215-217
    ELSE Local(extract_images_from_epub(p.items),
               LAMBDA imgs :
                 Local(OrderedDocuments(p.items, Spine(p)),
                       LAMBDA docs : Assembled(p, imgs, docs)))

-----------------------------------------------------------------------------
(* Packages given to extract_epub_content                                   *)

MaxSpineDocs == 2

DocIds == {"c1", "c2", "c3"}

\* a chapter: c1 shows the cover, the others hold text only
Doc(id, raises) ==
    Item(ITEM_DOCUMENT, id, id \o ".xhtml",
         << <<"text", "<html><body><h1>">>, <<"bytes", 1>>, <<"text", id>>,
            <<"text", "</h1>">>,
            <<"text", IF id = "c1" THEN "<img src='cover.jpg'/>" ELSE "">>,
            <<"text", "</body></html>">> >>,
         0, raises)

Cover == Item(ITEM_IMAGE, "cover", "cover.jpg", <<255, 216, 255>>, 0, FALSE)

\* the sequences of length 0..n of distinct elements of S
DistinctSeqs(S, n) ==
    UNION { { q \in [1..k -> S] : \A i, j \in 1..k : q[i] = q[j] => i = j } :
            k \in 0..n }

\* the documents of a package in the order met, at most one of them raising
DocLists ==
    UNION { { [i \in 1..Len(q) |-> Doc(q[i], i = bad)] : bad \in 0..Len(q) } :
            q \in DistinctSeqs(DocIds, Cardinality(DocIds)) }

SpineOf(q) == [i \in 1..Len(q) |-> <<q[i], "yes">>]

ShortSpines == { SpineOf(q) : q \in DistinctSeqs(DocIds \cup {"nav"}, MaxSpineDocs) }

\* the numbers of leading entries that name no document
Pads == {0, MissingRank - 1, MissingRank}

\* the packages that open: with metadata, any documents and any spine; without
\* metadata nor spine, any documents
Packages ==
    { [opens |-> TRUE, title |-> "T", author |-> "A", stem |-> "book",
       items |-> <<Cover>> \o d, spine |-> sp, pad |-> n] :
        d \in DocLists, sp \in ShortSpines, n \in Pads }
    \cup { [opens |-> TRUE, title |-> "", author |-> "", stem |-> "book",
            items |-> d, spine |-> <<>>, pad |-> 0] : d \in DocLists }
    \cup { [opens |-> FALSE, title |-> "", author |-> "", stem |-> "bad",
            items |-> <<>>, spine |-> <<>>, pad |-> 0] }

AsmInit ==
    /\ pkg \in Packages
    /\ result = None
    /\ asmPc = "ready"

AsmIdle ==
    /\ pkg = [opens |-> FALSE, title |-> "", author |-> "", stem |-> "",
              items |-> <<>>, spine |-> <<>>, pad |-> 0]
    /\ result = None
    /\ asmPc = "idle"

\* one call of extract_epub_content
Assemble ==
    /\ asmPc = "ready"
    /\ result' = extract_epub_content(pkg)
    /\ asmPc' = "done"
    /\ UNCHANGED pkg
    /\ UNCHANGED <<cleanVars, imgVars, batchVars>>

-----------------------------------------------------------------------------
(* convert_all, convert_epub_to_pdf, is_already_converted and main          *)
(* (lines 71-106 and 392-482)                                               *)

MaxFiles == 2
MaxTime == 2
MaxRuns == 2

\* what becomes of an input file:
\*   "good"     it converts
\*   "corrupt"  epub.read_epub raises, so extract_epub_content returns None
\*   "norender" HTML(...).write_pdf raises
\*   "nopath"   get_output_path raises (relative_to, or mkdir of the
\*              destination directory, line 86)
FileKinds == {"good", "corrupt", "norender", "nopath"}

NoPdf == [exists |-> FALSE, mtime |-> 0]

\* lines 82-88 raise for the file
OutputPathRaises(f) == files[f].kind = "nopath"

\* line 105 were it written with > for >=
is_already_converted_strict(f) == pdf[f].exists /\ pdf[f].mtime > epub_mtime[f]

\* lines 100-106, once get_output_path has returned
is_already_converted(f) == pdf[f].exists /\ pdf[f].mtime >= epub_mtime[f]

\* line 411: extract_epub_content returns None exactly when the reader fails
\* to open the file
HasContent(f) == files[f].kind # "corrupt"

\* lines 426-427
RenderRaises(f) == files[f].kind = "norender"

\* convert_epub_to_pdf (lines 402-438), called at line 459 with the output
\* path derivable: "skip" (line 406), "written" (line 430) or "false"
\* (lines 413 and 438)
convert_epub_to_pdf(f) ==
    IF is_already_converted(f) THEN "skip"
    ELSE IF ~HasContent(f) THEN "false"
    ELSE IF RenderRaises(f) THEN "false"
    ELSE "written"

\* lines 456-462 for one file, once is_already_converted has returned
FileResult(f) ==
    IF is_already_converted(f) THEN "skipped"
    ELSE IF convert_epub_to_pdf(f) # "false" THEN "success"
    ELSE "failed"

Count(r, key) == [r EXCEPT ![key] = @ + 1]

NoResults == [total |-> 0, success |-> 0, failed |-> 0, skipped |-> 0]

\* what is remembered of the last time a file was handled
NeverHandled ==
    [run |-> 0, result |-> "none", rendered |-> FALSE, pdfBefore |-> NoPdf,
     pdfAfter |-> NoPdf, prevRun |-> 0, prevResult |-> "none",
     modifiedSince |-> FALSE, inputMtime |-> 0]

Handled(f, res, rendered, after) ==
    [run |-> run, result |-> res, rendered |-> rendered, pdfBefore |-> pdf[f],
     pdfAfter |-> after, prevRun |-> last[f].run, prevResult |-> last[f].result,
     modifiedSince |-> touched[f], inputMtime |-> epub_mtime[f]]

BatchInit ==
    /\ \E n \in 0..MaxFiles :
          /\ files \in [1..n -> [kind : FileKinds]]
          /\ epub_mtime \in [1..n -> {0, MaxTime + 1}]
          /\ pdf = [f \in 1..n |-> NoPdf]
          /\ last = [f \in 1..n |-> NeverHandled]
          /\ touched = [f \in 1..n |-> FALSE]
          /\ source_exists \in (IF n = 0 THEN {TRUE, FALSE} ELSE {TRUE})
    /\ now = 0
    /\ run = 1
    /\ pos = 1
    /\ results = NoResults
    /\ batchPc = "start"
    /\ exit_code = 0

BatchIdle ==
    /\ files = <<>>
    /\ epub_mtime = <<>>
    /\ pdf = <<>>
    /\ last = <<>>
    /\ touched = <<>>
    /\ source_exists = FALSE
    /\ now = 0
    /\ run = 0
    /\ pos = 1
    /\ results = NoResults
    /\ batchPc = "idle"
    /\ exit_code = 0

\* main up to the loop of convert_all: lines 475-476, 447-453 (and 479-482
\* when find_epub_files returns no file)
StartRun ==
    /\ batchPc = "start"
    /\ IF ~source_exists \/ Len(files) = 0
       THEN /\ results' = NoResults
            /\ exit_code' = 0
            /\ batchPc' = "exited"
       ELSE /\ results' = [NoResults EXCEPT !.total = Len(files)]
            /\ exit_code' = 0
            /\ batchPc' = "loop"
    /\ pos' = 1
    /\ UNCHANGED <<files, source_exists, epub_mtime, pdf, now, run, last, touched>>
    /\ UNCHANGED <<cleanVars, imgVars, asmVars>>

\* one iteration of the loop of line 455.  An exception of line 456 is caught
\* nowhere: it leaves convert_all and main, and the process ends with status 1.
ProcessFile ==
    /\ batchPc = "loop"
    /\ pos <= Len(files)
    /\ LET f == pos
       IN  IF OutputPathRaises(f)
           THEN /\ batchPc' = "exited"
                /\ exit_code' = 1
                /\ last' = [last EXCEPT ![f] = Handled(f, "raised", FALSE, pdf[f])]
                /\ UNCHANGED <<results, pdf, pos>>
           ELSE LET res == FileResult(f)
                    written == res = "success" /\ convert_epub_to_pdf(f) = "written"
                    after == IF written THEN [exists |-> TRUE, mtime |-> now]
                             ELSE pdf[f]
                    rendered == res # "skipped" /\ HasContent(f)
                IN  /\ results' = Count(results, res)
                    /\ pdf' = [pdf EXCEPT ![f] = after]
                    /\ last' = [last EXCEPT ![f] = Handled(f, res, rendered, after)]
                    /\ pos' = pos + 1
                    /\ UNCHANGED <<batchPc, exit_code>>
    /\ touched' = [touched EXCEPT ![pos] = FALSE]
    /\ UNCHANGED <<files, source_exists, epub_mtime, now, run>>
    /\ UNCHANGED <<cleanVars, imgVars, asmVars>>

\* lines 465-470 and 479-482
Finish ==
    /\ batchPc = "loop"
    /\ pos > Len(files)
    /\ exit_code' = IF results.failed > 0 THEN 1 ELSE 0
    /\ batchPc' = "exited"
    /\ UNCHANGED <<files, source_exists, epub_mtime, pdf, now, run, pos, results,
                   last, touched>>
    /\ UNCHANGED <<cleanVars, imgVars, asmVars>>

\* the program is run again
NextRun ==
    /\ batchPc = "exited"
    /\ run < MaxRuns
    /\ run' = run + 1
    /\ batchPc' = "start"
    /\ UNCHANGED <<files, source_exists, epub_mtime, pdf, now, pos, results,
                   exit_code, last, touched>>
    /\ UNCHANGED <<cleanVars, imgVars, asmVars>>

\* time passes between two runs
Tick ==
    /\ batchPc = "exited"
    /\ run < MaxRuns
    /\ now < MaxTime
    /\ now' = now + 1
    /\ UNCHANGED <<files, source_exists, epub_mtime, pdf, run, pos, results,
                   batchPc, exit_code, last, touched>>
    /\ UNCHANGED <<cleanVars, imgVars, asmVars>>

\* an input file is modified between two runs
Touch ==
    /\ batchPc = "exited"
    /\ run < MaxRuns
    /\ \E f \in 1..Len(files) :
          /\ epub_mtime[f] # now
          /\ epub_mtime' = [epub_mtime EXCEPT ![f] = now]
          /\ touched' = [touched EXCEPT ![f] = TRUE]
    /\ UNCHANGED <<files, source_exists, pdf, now, run, pos, results, batchPc,
                   exit_code, last>>
    /\ UNCHANGED <<cleanVars, imgVars, asmVars>>

BatchNext == StartRun \/ ProcessFile \/ Finish \/ NextRun \/ Tick \/ Touch

-----------------------------------------------------------------------------
(* Specifications                                                           *)

CleanStart == CleanInit /\ ImgIdle /\ AsmIdle /\ BatchIdle

CleanNext == Clean

SpecClean == CleanStart /\ [][CleanNext]_vars

ImgStart == ImgInit /\ CleanIdle /\ AsmIdle /\ BatchIdle

SpecImages == ImgStart /\ [][ImgNext]_vars

AsmStart == AsmInit /\ CleanIdle /\ ImgIdle /\ BatchIdle

AsmNext == Assemble

SpecAssemble == AsmStart /\ [][AsmNext]_vars

BatchStart == BatchInit /\ CleanIdle /\ ImgIdle /\ AsmIdle

SpecBatch == BatchStart /\ [][BatchNext]_vars

-----------------------------------------------------------------------------
\* C10: the output of _clean_html_content holds no XML prolog and no doctype
\* declaration in any letter case, with or without a body wrapper; without a
\* body wrapper the head section is gone with its contents and all other
\* content (here: the chapter's text) is kept.
C10_NoPrologNoDoctype ==
    cleanPc = "done" =>
        /\ ~Contains(cleaned, "<?xml", TRUE)
        /\ ~Contains(cleaned, "<!doctype", TRUE)
        /\ rawDoc.body[1] = "" => cleaned = rawDoc.text

-----------------------------------------------------------------------------
(* Claims about extract_images_from_epub and _replace_image_references      *)

\* the reference of the first img tag of a fragment, as img_pattern reads it
OutSrc(out) ==
    LET S == {j \in 1..Len(out) : ImgMatch(out, j).ok}
    IN  IF S = {} THEN "" ELSE ImgMatch(out, MinOf(S)).src

\* C3: an image reference equal to the declared full path of an image that
\* extract_images_from_epub accepted is replaced by the data URL computed from
\* that same item (its own bytes in base64, the content type of its own
\* name), whatever other images the package holds.
C3_ExactReference ==
    imgPc = "rewritten" =>
        \A k \in 1..Len(book) :
            (book[k].name \in accepted /\ frag.ref = book[k].name)
                => OutSrc(rewritten) = DataUrl(book[k])

\* C4: a reference that is no data URL and none of whose candidate keys is a
\* key of images (the empty dict included) leaves _replace_image_references
\* as the placeholder "#".
C4_PlaceholderWhenUnmatched ==
    (/\ imgPc = "rewritten"
     /\ ~StartsWith(frag.ref, "data:")
     /\ \A k \in 1..Len(possible_keys(frag.ref)) :
            possible_keys(frag.ref)[k] \notin DOMAIN images)
        => OutSrc(rewritten) = "#"

\* C5 as stated: the number of keys of images never exceeds max_images.
C5_KeysAtMostMax == Cardinality(DOMAIN images) <= max_images

\* C5 as amended: the number of accepted images never exceeds max_images, and
\* images holds at most two keys per accepted image.
C5_AcceptedAtMostMax ==
    /\ processed_count <= max_images
    /\ Cardinality(accepted) <= max_images
    /\ Cardinality(DOMAIN images) <= 2 * processed_count

\* the limit cut the collection short, with more keys than max_images held
C5_LimitCutsCollection ==
    /\ imgPc = "collected"
    /\ idx <= Len(book)
    /\ processed_count = max_images
    /\ Cardinality(DOMAIN images) > max_images

\* the prefix p removed from s when s starts with it
StripPrefix(s, p) == IF StartsWith(s, p) THEN SubSeq(s, Len(p) + 1, Len(s)) ELSE s

\* the candidates as C9 lists them: removals at the start of the reference only
StatedCandidates(src) ==
    LET keys == << src,
                   LastSegment(src, "/"),
                   Replace(src, "../", ""),
                   StripPrefix(src, "./"),
                   StripPrefix(src, "/"),
                   StripPrefix(src, "images/"),
                   StripPrefix(src, "Images/"),
                   StripPrefix(src, "IMAGES/"),
                   LastSegment(src, "/") >>
        uniq == Dedup(keys)
    IN  SubSeq(uniq, 1, IF Len(uniq) < MaxVariants THEN Len(uniq) ELSE MaxVariants)

\* C9: a reference that is no data URL resolves to the first key of images
\* among the stated candidates (raw, basename, "../" removed, a leading "./"
\* removed, one leading "/" removed, a leading images/ Images/ IMAGES/
\* removed, basename), and to no key when none of them is one.
C9_StatedCandidates ==
    imgPc = "rewritten" =>
        \A i \in 1..Len(lookups) :
            lookups[i].key = FirstKey(StatedCandidates(lookups[i].src), images)

-----------------------------------------------------------------------------
(* Claims about extract_epub_content                                        *)

InSpine(id) == \E i \in 1..Len(pkg.spine) : pkg.spine[i][1] = id

\* the package has a spine
HasSpine == pkg.pad + Len(pkg.spine) > 0

\* where id stands in the spine, and where it was met among the items
SpinePos(id) == pkg.pad + (CHOOSE i \in 1..Len(pkg.spine) : pkg.spine[i][1] = id)
MetAt(id) == CHOOSE i \in 1..Len(pkg.items) : pkg.items[i].id = id

\* C1: with a spine of any length, the fragments named in the spine are
\* emitted in spine order, every fragment not named in it comes after all of
\* those, and the fragments not named keep the order in which they were met.
C1_SpineOrder ==
    (asmPc = "done" /\ result.ok /\ HasSpine) =>
        \A a, b \in 1..Len(result.emitted) :
            a < b =>
                LET x == result.emitted[a]
                    y == result.emitted[b]
                IN  /\ (InSpine(x) /\ InSpine(y)) => SpinePos(x) < SpinePos(y)
                    /\ ~(~InSpine(x) /\ InSpine(y))
                    /\ (~InSpine(x) /\ ~InSpine(y)) => MetAt(x) < MetAt(y)

\* C6: when the reader opens the package, extract_epub_content returns a
\* document, whatever the package holds: the fragments that raise are left
\* out and the others stand in their ordered position.  None is returned only
\* when the reader fails.
C6_DocumentUnlessUnopened ==
    asmPc = "done" =>
        /\ result.ok = pkg.opens
        /\ pkg.opens =>
             LET docs == SelectSeq(OrderedDocuments(pkg.items, Spine(pkg)),
                                   LAMBDA d : ~d.raises)
             IN  result.emitted = [i \in 1..Len(docs) |-> docs[i].id]

\* a package that opens, with a fragment that raises before one that does not
C6_FragmentSkipped ==
    /\ asmPc = "done"
    /\ pkg.opens
    /\ result.ok
    /\ result.emitted # <<>>
    /\ \E i, j \in 1..Len(pkg.items) :
          /\ i < j
          /\ pkg.items[i].type = ITEM_DOCUMENT /\ pkg.items[i].raises
          /\ pkg.items[j].type = ITEM_DOCUMENT /\ pkg.items[j].id \in
                {result.emitted[k] : k \in 1..Len(result.emitted)}

-----------------------------------------------------------------------------
(* Claims about convert_all and main                                        *)

HandledNow(f) == last[f].run = run

\* C2: an exception at any step of a file's handling (output path, staleness
\* check, content, rendering) is caught and the file counted as failed, and
\* the files after it are still handled: no exception ends the loop.
C2_ExceptionsContained ==
    /\ \A f \in 1..Len(files) :
          (HandledNow(f) /\ files[f].kind # "good") => last[f].result = "failed"
    /\ batchPc = "exited" => \A f \in 1..Len(files) : HandledNow(f)

Reported == {"success", "failed", "skipped"}

\* the file was handled by two runs in a row, not modified in between
HandledTwice(f) ==
    /\ last[f].run >= 2
    /\ last[f].prevRun = last[f].run - 1
    /\ ~last[f].modifiedSince

\* both runs reported a result for the file
SecondRunOf(f) ==
    /\ HandledTwice(f)
    /\ last[f].prevResult \in Reported
    /\ last[f].result \in Reported

Untouched(f) ==
    /\ last[f].result = "skipped"
    /\ ~last[f].rendered
    /\ last[f].pdfAfter = last[f].pdfBefore

\* C7 as stated: a file not modified between two runs is reported skipped by
\* the second, which neither renders nor writes its output.
C7_SecondRunSkips ==
    \A f \in 1..Len(files) : SecondRunOf(f) => Untouched(f)

\* C7 as amended: so it is when the first run reported success or skipped for
\* the file and left an output not older than the input.
C7_SecondRunSkipsConverted ==
    \A f \in 1..Len(files) :
        (/\ HandledTwice(f)
         /\ last[f].prevResult \in {"success", "skipped"}
         /\ last[f].pdfBefore.exists
         /\ last[f].pdfBefore.mtime >= last[f].inputMtime)
            => Untouched(f)

\* a file converted by one run and skipped by the next
C7_ConvertedThenSkipped ==
    \E f \in 1..Len(files) :
        /\ SecondRunOf(f)
        /\ last[f].prevResult = "success"
        /\ last[f].result = "skipped"
        /\ last[f].pdfAfter.exists

NumberOf(res) == Cardinality({f \in 1..Len(files) : HandledNow(f) /\ last[f].result = res})

\* C8: the exit status is not 0 exactly when a file was reported failed, and
\* in a run that has ended total = success + failed + skipped, every file
\* found being counted in exactly one of the three.
C8_ExitStatus ==
    batchPc = "exited" =>
        /\ (exit_code # 0) = (results.failed > 0)
        /\ results.total = results.success + results.failed + results.skipped
        /\ results.success = NumberOf("success")
        /\ results.failed = NumberOf("failed")
        /\ results.skipped = NumberOf("skipped")

====
